---- MODULE Spec2Model ----
(***************************************************************************)
(* PageRank (pagerank.py): transition_model, sample_pagerank and           *)
(* iterate_pagerank over a corpus {page -> set of linked pages}.           *)
(*                                                                         *)
(* Numbers.  A Python float is modelled as a fixed-point number: the       *)
(* integer x stands for x / Scale, and every division and product rounds   *)
(* to the nearest unit, as IEEE arithmetic rounds to the nearest float.    *)
(* Sums of fixed-point numbers are exact.  Pages are 1..N (opaque          *)
(* identifiers); a corpus is a function from its pages to sets of pages.   *)
(***************************************************************************)
EXTENDS Integers, FiniteSets, TLC

\* ---- bounds of the model
MaxNodes == 3
MaxSamples == 2

\* ---- fixed-point arithmetic standing for Python floats
Scale == 10^6
Split == 10^3

One == Scale

Abs(x) == IF x < 0 THEN -x ELSE x

\* int / int or float / int (true division), rounded to nearest:
\* IntDiv(a, b) is the float a / b for integers a, b; FDiv(x, b) is x / b
\* for a float x and an integer b.
FDiv(x, b) == (2 * x + b) \div (2 * b)

IntDiv(a, b) == FDiv(a * Scale, b)

\* float * float, rounded to nearest.  x * y may exceed the 32-bit integers
\* of the model checker, so the product is formed from the two parts of x.
FMul(x, y) ==
    LET xh == x \div Split
        xl == x % Split
    IN (xh * y + ((xl * y + Scale \div 2) \div Split)) \div Split

\* sum(d.values())
RECURSIVE SumOver(_, _)
SumOver(f, S) ==
    IF S = {} THEN 0
    ELSE LET p == CHOOSE q \in S : TRUE IN f[p] + SumOver(f, S \ {p})

Sum(f) == SumOver(f, DOMAIN f)

\* len(corpus), len(corpus[page])
len(S) == Cardinality(S)

\* ---- inputs
\* The corpora crawl() can build on N pages: every link is to another page
\* of the corpus (no dangling link, no self-loop).
Graphs(N) ==
    {g \in [1..N -> SUBSET (1..N)] : \A p \in 1..N : p \notin g[p]}

Corpora == UNION {Graphs(N) : N \in 0..MaxNodes}

\* DAMPING = 0.85
DAMPING == (85 * Scale) \div 100

\* the damping factors tried: the ends of [0, 1] and the default
Dampings == {0, DAMPING, One}

\* those tried by iterate_pagerank, all below 1: 0, 0.5, 0.85 and 0.95
IterateDampings == {0, Scale \div 2, DAMPING, (95 * Scale) \div 100}

\* the convergence threshold 0.001
Threshold == Scale \div 1000

VARIABLES
    corpus,            \* the corpus argument
    damping_factor,    \* the damping_factor argument
    page,              \* transition_model's page argument (0: none)
    n,                 \* sample_pagerank's n argument
    pc,                \* position in the running function
    err,               \* the exception raised ("" : none)
    i,                 \* sample_pagerank: iterations of range(n) completed
    current_page,      \* sample_pagerank: current_page (0: not chosen)
    probabilities,     \* the last distribution transition_model returned
    Pge_Rnk,           \* sample_pagerank: Pge_Rnk
    page_rank,         \* iterate_pagerank: page_rank
    new_Pge_Rnk        \* iterate_pagerank: new_Pge_Rnk

vars == <<corpus, damping_factor, page, n, pc, err, i, current_page,
          probabilities, Pge_Rnk, page_rank, new_Pge_Rnk>>

Pages == DOMAIN corpus

\* ---- transition_model
transition_model(c, pg, d) ==
    LET number_pgs == len(DOMAIN c)
        lnk_prob == IF len(c[pg]) > 0 THEN FDiv(d, len(c[pg])) ELSE 0
        rndm_prob == FDiv(One - d, number_pgs)
    IN [p \in DOMAIN c |->
            (IF p \in c[pg] THEN lnk_prob ELSE 0) + rndm_prob]

InitTransition ==
    /\ corpus \in Corpora
    /\ damping_factor \in Dampings
    /\ page \in DOMAIN corpus
    /\ n = 0 /\ pc = "call" /\ err = "" /\ i = 0 /\ current_page = 0
    /\ probabilities = <<>> /\ Pge_Rnk = <<>>
    /\ page_rank = <<>> /\ new_Pge_Rnk = <<>>

TransitionCall ==
    /\ pc = "call"
    /\ probabilities' = transition_model(corpus, page, damping_factor)
    /\ pc' = "done"
    /\ UNCHANGED <<corpus, damping_factor, page, n, err, i, current_page,
                   Pge_Rnk, page_rank, new_Pge_Rnk>>

NextTransition == TransitionCall

SpecTransition == InitTransition /\ [][NextTransition]_vars

\* ---- sample_pagerank
\* the sample counts tried: negative, zero, and 1..MaxSamples
SampleCounts == (-1)..MaxSamples

InitSample ==
    /\ corpus \in Corpora
    /\ damping_factor \in Dampings
    /\ n \in SampleCounts
    /\ page = 0 /\ pc = "start" /\ err = "" /\ i = 0 /\ current_page = 0
    /\ probabilities = <<>> /\ Pge_Rnk = <<>>
    /\ page_rank = <<>> /\ new_Pge_Rnk = <<>>

\* Pge_Rnk = {page: 0 for page in corpus}; random.choice(list(corpus.keys())):
\* random.choice raises IndexError on an empty list.
SampleStart ==
    /\ pc = "start"
    /\ Pge_Rnk' = [p \in Pages |-> 0]
    /\ IF Pages = {}
       THEN /\ pc' = "error"
            /\ err' = "IndexError"
            /\ UNCHANGED current_page
       ELSE /\ pc' = "loop"
            /\ current_page' \in Pages
            /\ UNCHANGED err
    /\ UNCHANGED <<corpus, damping_factor, page, n, i, probabilities,
                   page_rank, new_Pge_Rnk>>

\* A slip in the counting: the visit is counted twice.
Visit_Twice(counters, p) == [counters EXCEPT ![p] = @ + 2]

\* Pge_Rnk[current_page] += 1
Visit(counters, p) == [counters EXCEPT ![p] = @ + 1]

\* random.choices(population, weights)[0]: the pages it can return, those of
\* positive weight; with a zero total it raises ValueError (Python 3.9 on).
Choices(weights) == {q \in DOMAIN weights : weights[q] > 0}

\* One iteration of `for _ in range(n)`.
SampleStep ==
    /\ pc = "loop"
    /\ i < n
    /\ Pge_Rnk' = Visit(Pge_Rnk, current_page)
    /\ probabilities' = transition_model(corpus, current_page, damping_factor)
    /\ IF Sum(probabilities') > 0
       THEN /\ current_page' \in Choices(probabilities')
            /\ i' = i + 1
            /\ UNCHANGED <<pc, err>>
       ELSE /\ pc' = "error"
            /\ err' = "ValueError"
            /\ UNCHANGED <<current_page, i>>
    /\ UNCHANGED <<corpus, damping_factor, page, n, page_rank, new_Pge_Rnk>>

\* {page: rank / total_samples for page, rank in Pge_Rnk.items()}
Normalize(counters, total_samples) ==
    [p \in DOMAIN counters |-> IntDiv(counters[p], total_samples)]

\* The loop is over: total_samples = sum(Pge_Rnk.values()), the division of
\* every counter by it (ZeroDivisionError when it is 0), and the return.
SampleNormalize ==
    /\ pc = "loop"
    /\ i >= n
    /\ LET total_samples == Sum(Pge_Rnk)
       IN IF total_samples = 0
          THEN /\ pc' = "error"
               /\ err' = "ZeroDivisionError"
               /\ UNCHANGED Pge_Rnk
          ELSE /\ pc' = "done"
               /\ Pge_Rnk' = Normalize(Pge_Rnk, total_samples)
               /\ UNCHANGED err
    /\ UNCHANGED <<corpus, damping_factor, page, n, i, current_page,
                   probabilities, page_rank, new_Pge_Rnk>>

NextSample == SampleStart \/ SampleStep \/ SampleNormalize

SpecSample == InitSample /\ [][NextSample]_vars

\* ---- iterate_pagerank
InitIterate ==
    /\ corpus \in Corpora
    /\ damping_factor \in IterateDampings
    /\ page = 0 /\ n = 0 /\ pc = "start" /\ err = "" /\ i = 0
    /\ current_page = 0 /\ probabilities = <<>> /\ Pge_Rnk = <<>>
    /\ page_rank = <<>> /\ new_Pge_Rnk = <<>>

\* page_rank = {page: 1 / len(corpus) for page in corpus}
InitialRank(c) == [p \in DOMAIN c |-> IntDiv(1, len(DOMAIN c))]

IterateStart ==
    /\ pc = "start"
    /\ page_rank' = InitialRank(corpus)
    /\ pc' = "loop"
    /\ UNCHANGED <<corpus, damping_factor, page, n, err, i, current_page,
                   probabilities, Pge_Rnk, new_Pge_Rnk>>

\* The pages that link to p: `if page in Lnks` over corpus.items().
LinkingPages(c, p) == {l \in DOMAIN c : p \in c[l]}

\* The body of `while True` up to the convergence check: new_Pge_Rnk from
\* page_rank.
Update(c, d, rank) ==
    [p \in DOMAIN c |->
        FDiv(One - d, len(DOMAIN c))
        + SumOver([l \in DOMAIN c |->
                       IF c[l] = {} THEN 0
                       ELSE FMul(d, FDiv(rank[l], len(c[l])))],
                  LinkingPages(c, p))]

\* A slip in the convergence check: any() for all().
Converged_Any(new, rank) ==
    \E p \in DOMAIN rank : Abs(new[p] - rank[p]) < Threshold

\* all(abs(new_Pge_Rnk[page] - page_rank[page]) < 0.001 for page in corpus)
Converged(new, rank) ==
    \A p \in DOMAIN rank : Abs(new[p] - rank[p]) < Threshold

\* A slip in the loop: page_rank is never replaced by new_Pge_Rnk.
IterateStep_NoAssign ==
    /\ pc = "loop"
    /\ new_Pge_Rnk' = Update(corpus, damping_factor, page_rank)
    /\ IF Converged(new_Pge_Rnk', page_rank)
       THEN pc' = "done"
       ELSE UNCHANGED pc
    /\ UNCHANGED <<corpus, damping_factor, page, n, err, i, current_page,
                   probabilities, Pge_Rnk, page_rank>>

\* One iteration of `while True`: break and return page_rank when converged,
\* else page_rank = new_Pge_Rnk.
IterateStep ==
    /\ pc = "loop"
    /\ new_Pge_Rnk' = Update(corpus, damping_factor, page_rank)
    /\ IF Converged(new_Pge_Rnk', page_rank)
       THEN /\ pc' = "done"
            /\ UNCHANGED page_rank
       ELSE /\ page_rank' = new_Pge_Rnk'
            /\ UNCHANGED pc
    /\ UNCHANGED <<corpus, damping_factor, page, n, err, i, current_page,
                   probabilities, Pge_Rnk>>

NextIterate == IterateStart \/ IterateStep

SpecIterate == InitIterate /\ [][NextIterate]_vars

\* The loop runs with no suspension point: a pending iteration is taken.
FairSpecIterate == SpecIterate /\ WF_vars(NextIterate)

\* ---- properties of transition_model
\* The rounding allowance of a sum over the pages: one unit per entry.
Rounding == len(Pages)

\* C1: for a damping factor in [0, 1), the distribution transition_model
\* returns has one entry per page of the corpus, every entry is strictly
\* positive, and the entries sum to 1 (up to rounding).
C1_Distribution ==
    (pc = "done" /\ damping_factor < One) =>
        /\ DOMAIN probabilities = Pages
        /\ \A p \in Pages : probabilities[p] > 0
        /\ Abs(Sum(probabilities) - One) <= Rounding

\* C2: for a page with no outbound link, transition_model returns the
\* uniform distribution: every page of the corpus, the page itself included,
\* gets 1/N, whatever the damping factor in [0, 1].
C2_DeadEndUniform ==
    (pc = "done" /\ corpus[page] = {}) =>
        \A p \in Pages :
            Abs(probabilities[p] - IntDiv(1, len(Pages))) <= 1

\* ---- properties of sample_pagerank
\* The calls C6 is about: a non-empty corpus, a damping factor below 1 and
\* a positive sample count.
SampleCase == Pages # {} /\ damping_factor < One /\ n >= 1

\* C6, the counters: after k iterations of the loop they sum to k.
CountersSumToK == (SampleCase /\ pc = "loop") => Sum(Pge_Rnk) = i

\* C6, an iteration: it adds 1 to the counter of the current page and
\* leaves every other counter as it was.
OneCounterIncremented ==
    (SampleCase /\ pc = "loop" /\ i < n) =>
        /\ Pge_Rnk'[current_page] = Pge_Rnk[current_page] + 1
        /\ \A p \in Pages \ {current_page} : Pge_Rnk'[p] = Pge_Rnk[p]
        /\ i' = i + 1

\* C6, the return: every rank is the page's counter divided by the sample
\* count, lies in [0, 1], and the ranks sum to 1 (up to rounding).
RanksAreFrequencies ==
    (SampleCase /\ pc = "loop" /\ pc' = "done") =>
        /\ \A p \in Pages :
              /\ Pge_Rnk'[p] = (2 * Scale * Pge_Rnk[p] + n) \div (2 * n)
              /\ Pge_Rnk'[p] >= 0
              /\ Pge_Rnk'[p] <= One
        /\ Abs(Sum(Pge_Rnk') - One) <= Rounding

\* C6: in sample_pagerank on a non-empty corpus, with a damping factor in
\* [0, 1) and a sample count >= 1, whatever is drawn: after k iterations the
\* visit counters sum to k, each iteration adds 1 to exactly one counter,
\* that of the current page, and at return each rank is its counter divided
\* by the sample count, so the ranks are in [0, 1] and sum to 1.
C6_VisitFrequencies ==
    /\ []CountersSumToK
    /\ [][OneCounterIncremented /\ RanksAreFrequencies]_vars

\* A walk of MaxSamples steps over two pages or more, at the default damping
\* factor, that has returned with a rank strictly between 0 and 1.
C6_Witness ==
    /\ pc = "done" /\ n = MaxSamples /\ i = n
    /\ damping_factor = DAMPING
    /\ len(Pages) >= 2
    /\ \E p \in Pages : Pge_Rnk[p] > 0 /\ Pge_Rnk[p] < One

\* C7: for every damping factor in [0, 1], 1 included, and every sample
\* count >= 1 the walk never gets stuck: on every page, dead ends included,
\* the transition distribution has a positive total weight, a next page is
\* drawn, and the call raises nothing.
C7_WalkNeverStuck ==
    (Pages # {} /\ n >= 1) =>
        /\ err = ""
        /\ (probabilities # <<>> => Sum(probabilities) > 0)

\* C9: sample_pagerank on a non-empty corpus with a sample count <= 0
\* either rejects the call with InvalidInput or returns rank 0 for every
\* page; it fails in no other way (no division by zero).
C9_NoSamples ==
    (Pages # {} /\ n <= 0 /\ pc \in {"done", "error"}) =>
        \/ err = "InvalidInput"
        \/ pc = "done" /\ \A p \in Pages : Pge_Rnk[p] = 0

\* ---- properties of iterate_pagerank
\* 0.001, the tolerance the claims name
Tolerance == Scale \div 1000

\* C3: on a non-empty corpus, dead ends included, with a damping factor in
\* [0, 1), every value iterate_pagerank returns is in [0, 1] and the values
\* sum to 1 within 0.001 (a dead end passes its rank to every page).
C3_RanksSumToOne ==
    (pc = "done" /\ Pages # {} /\ damping_factor < One) =>
        /\ \A p \in Pages : page_rank[p] >= 0 /\ page_rank[p] <= One
        /\ Abs(Sum(page_rank) - One) < Tolerance

\* C4: on a non-empty corpus with a damping factor in [0, 1) the loop of
\* iterate_pagerank reaches an iteration in which every page's
\* |new_rank - rank| is below 0.001, and the call returns.
C4_Terminates ==
    (Pages # {} /\ damping_factor < One) =>
        <>(pc = "done" /\
           \A p \in Pages :
               Abs(new_Pge_Rnk[p] - page_rank[p]) < Tolerance)

\* A call on the default damping factor that returned after more than one
\* iteration, on a corpus with a dead end.
C4_Witness ==
    /\ pc = "done"
    /\ damping_factor = DAMPING
    /\ \E p \in Pages : corpus[p] = {}
    /\ \E p \in Pages : page_rank[p] # (2 * Scale + len(Pages)) \div (2 * len(Pages))

\* C5: on the corpus of one page with no link, for every damping factor in
\* [0, 1), the estimator returns rank 1.0 for the page.
C5_SinglePage ==
    (pc = "done" /\ Pages = {1} /\ damping_factor < One) =>
        page_rank[1] = One

\* C8: called with an empty corpus, the estimator signals an error before
\* any computation and returns no rank mapping, not even an empty one.
C8_EmptyRejected == (Pages = {}) => pc # "done"

\* C10, the start: every page starts at rank 1/N.
StartsUniform ==
    pc = "start" =>
        \A p \in Pages :
            page_rank'[p] = (2 * Scale + len(Pages)) \div (2 * len(Pages))

\* C10, no earlier: an iteration after which the loop goes on saw a page
\* with |new_rank - rank| >= 0.001.
ContinuesOnlyUnconverged ==
    (pc = "loop" /\ pc' = "loop") =>
        /\ \E p \in Pages : Abs(new_Pge_Rnk'[p] - page_rank[p]) >= Tolerance
        /\ page_rank' = new_Pge_Rnk'

\* C10, the stop: the iteration that stops saw every page with
\* |new_rank - rank| < 0.001, for the new ranks the update rule gives from
\* the ranks returned.
StopsConverged ==
    pc = "done" =>
        /\ new_Pge_Rnk = Update(corpus, damping_factor, page_rank)
        /\ \A p \in Pages : Abs(new_Pge_Rnk[p] - page_rank[p]) < Tolerance

\* C10: iterate_pagerank starts from rank 1/N for every page and stops at
\* the first iteration, and no earlier, in which every page has
\* |new_rank - rank| < 0.001; applying the update rule once more to the
\* mapping it returns changes every value by less than 0.001.
C10_StopsWhenConverged ==
    /\ []StopsConverged
    /\ [][StartsUniform /\ ContinuesOnlyUnconverged]_vars

\* A call on three pages that returned after more than one iteration.
C10_Witness ==
    /\ pc = "done"
    /\ len(Pages) = 3
    /\ damping_factor = DAMPING
    /\ \E p \in Pages : Abs(page_rank[p] - IntDiv(1, 3)) >= Tolerance

====
